---- MODULE Spec2Model ----
(***************************************************************************)
(* The green (gevent) socket of zmq/green/core.py: class _Socket.           *)
(*                                                                         *)
(* One socket is shared by the cooperative tasks (greenlets) of Tasks.      *)
(* A task runs without interruption until it suspends in                    *)
(* AsyncResult.get(block=True) inside _wait_read/_wait_write, so an action  *)
(* is the code a task (or a hub callback) runs between two suspensions.     *)
(*                                                                         *)
(* Gates.  self.__readable / self.__writable hold AsyncResult objects.      *)
(* _wait_* REPLACES the object of its direction by a new one and suspends   *)
(* on the new one, so a task may still be suspended on an object the        *)
(* socket no longer refers to.  An object is named by the task that made    *)
(* it (0: the object made by __setup_events); sock.gate[d] names the        *)
(* object the socket refers to now and sock.set[d][k] says whether the      *)
(* object named k was set().  A task suspends on one object at a time, so   *)
(* the name of the object a suspended task t waits for is t.                *)
(*                                                                         *)
(* A call that ends leaves its outcome in last; its caller runs on (no hub  *)
(* callback and no other task runs meanwhile) until Yield frees the hub.    *)
(***************************************************************************)
EXTENDS Integers, FiniteSets, Sequences, TLC

\* ---- bounds of the model ------------------------------------------------
MaxFrames == 2     \* frames of one multipart call

Tasks == {1, 2}
Owners == Tasks \cup {0}
Dirs == {"r", "w"}          \* "r": recv / readable, "w": send / writable
Opts == {"EVENTS", "SUBSCRIBE", "UNSUBSCRIBE", "RCVTIMEO"}

\* _gevent_bug_timeout, in tenths of a second
gevent_bug_timeout == 116

VARIABLES
    sock,   \* the fields of the _Socket object and of the zmq socket under it
    task,   \* per task: suspended in a wait or not, and the call it is in
    last    \* the call that has ended and whose caller runs on with the result

vars == <<sock, task, last>>

\* the element of a one-element set ({e(x) : x \in {v}} is e(v), v evaluated once)
The(X) == CHOOSE x \in X : TRUE

\* ---- AsyncResult -----------------------------------------------------------
\* (variant: set() reaches the object made by __setup_events only)
gate_set_first(S, d) == [S EXCEPT !.set[d][0] = TRUE]

\* self.__readable.set() / self.__writable.set(): sets the object the socket
\* refers to NOW (set() of a set object changes nothing).
gate_set(S, d) == [S EXCEPT !.set[d][S.gate[d]] = TRUE]

\* self.__readable.ready() / self.__writable.ready()
gate_ready(S, d) == S.set[d][S.gate[d]]

\* ---- the watch and the resync notification -----------------------------------
\* (variant: a teardown that stops the watch and forgets the waiting tasks)
cleanup_events_no_wake(S) ==
    IF S.state_event
    THEN [S EXCEPT !.state_event = FALSE, !.stops = @ + 1]
    ELSE S

\* (variant: a teardown that stops the watch whether it did so before or not)
cleanup_events_stops_again(S) ==
    gate_set(gate_set([S EXCEPT !.state_event = FALSE, !.stops = @ + 1], "w"), "r")

\* __cleanup_events: _stop(self._state_event) once (stops counts the calls of
\* _stop), then both gates are set
cleanup_events(S) ==
    LET S1 == IF S.state_event
              THEN [S EXCEPT !.state_event = FALSE, !.stops = @ + 1]
              ELSE S
    IN gate_set(gate_set(S1, "w"), "r")

\* __init__ / __setup_events: both gates set, the watch started; under them a
\* zmq socket that is open and (so far) neither readable nor writable
setup_events ==
    [closed |-> FALSE,
     state_event |-> TRUE,
     stops |-> 0,
     gate |-> [d \in Dirs |-> 0],
     set |-> [d \in Dirs |-> [k \in Owners |-> TRUE]],
     in_multipart |-> [d \in Dirs |-> FALSE],
     ready |-> [d \in Dirs |-> FALSE]]

\* __readable_detected, the callback of the watch
readable_detected(S) ==
    IF S.closed THEN cleanup_events(S) ELSE gate_set(S, "r")

\* select([fd], [fd], [], timeout=0): the live read/write readiness bits
select(S) == S.ready

\* __state_changed, the resync notification
state_changed(S) ==
    IF S.closed THEN cleanup_events(S)
    ELSE LET bits == select(S)
             S1 == IF bits["r"] THEN gate_set(S, "r") ELSE S
         IN IF bits["w"] THEN gate_set(S1, "w") ELSE S1

\* zmq.Socket.close under the green one: closed, nothing left to take or give
socket_close(S) == [S EXCEPT !.closed = TRUE, !.ready = [d \in Dirs |-> FALSE]]

close(S) == cleanup_events(socket_close(S))

\* ---- the zmq socket under the green one (zmq.Socket.send / recv) ------------
\* One non-blocking attempt: a closed socket answers ENOTSOCK ("closed"), a
\* failing one any other error ("fatal"), one that cannot take / give a frame
\* now EAGAIN ("eagain").  ev is what the attempt meets: "fatal" (an error),
\* "dry" (it takes the last frame / the last room: the socket is not ready
\* after it) or "none".
attempt_result(S, d, ev) ==
    IF S.closed THEN "closed"
    ELSE IF ev = "fatal" THEN "fatal"
    ELSE IF S.ready[d] THEN "ok" ELSE "eagain"

attempt_effect(S, d, r, ev) ==
    IF r = "ok" /\ ev = "dry" THEN [S EXCEPT !.ready[d] = FALSE] ELSE S

\* ---- _wait_read / _wait_write -------------------------------------------------
\* (variant: a wait that does not check that the gate is free)
wait_enter_unchecked(S, c, t) ==
    [S |-> [S EXCEPT !.gate[c.d] = t, !.set[c.d][t] = FALSE],
     c |-> c,
     st |-> "wait"]

\* (variant: a wait that sets the gate when it finds it taken)
wait_enter_conflict_sets(S, c, t) ==
    IF ~gate_ready(S, c.d)
    THEN [S |-> gate_set(S, c.d), c |-> c, st |-> "assert"]
    ELSE [S |-> [S EXCEPT !.gate[c.d] = t, !.set[c.d][t] = FALSE],
          c |-> c,
          st |-> "wait"]

\* Up to the suspension in get(block=True): the assertion, then the new
\* AsyncResult (made by task t, not set).  st = "wait": t is suspended.
wait_enter(S, c, t) ==
    IF ~gate_ready(S, c.d)
    THEN [S |-> S, c |-> c, st |-> "assert"]
    ELSE [S |-> [S EXCEPT !.gate[c.d] = t, !.set[c.d][t] = FALSE],
          c |-> c,
          st |-> "wait"]

\* (variant: a wait without the Timeout)
watchdog_off == FALSE

\* dt = self._gevent_bug_timeout; if dt: timeout = gevent.Timeout(seconds=dt)
watchdog_armed == gevent_bug_timeout # 0

\* (variant: every Timeout is raised again)
wait_raises_any_timeout(cause) == cause \in {"foreign", "watchdog"}

\* except gevent.Timeout as t: if t is not timeout: raise
\* cause: "signal" (get() returned), "watchdog" (the Timeout of this wait),
\* "foreign" (a Timeout somebody else raised into the task).
wait_raises(cause) == cause = "foreign"

\* (variant: a wait whose finally clause does not set the gate)
wait_exit_no_set(S, c, t) ==
    IF S.gate[c.d] = t THEN S ELSE [S EXCEPT !.set[c.d][t] = TRUE]

\* finally: timeout.cancel(); self.__writable.set()  -- sets the object the
\* socket refers to now.  The object t was suspended on is dropped by t; when
\* the socket does not refer to it either, nobody can observe it any more and
\* its flag is put back to TRUE.
wait_exit(S, c, t) ==
    LET S1 == gate_set(S, c.d)
    IN [S1 EXCEPT !.set[c.d][t] = TRUE]

\* ---- send / recv ----------------------------------------------------------------
\* (variant: a send / recv that forgets about the NOBLOCK flag of the caller)
send_recv_flag_lost(S, c, t, ev) ==
    LET d == c.d
        r == attempt_result(S, d, ev)
        S1 == attempt_effect(S, d, r, ev)
        c1 == [c EXCEPT !.attempts = @ + 1]
        fire == ~S1.in_multipart[d]
        S2 == IF fire THEN state_changed(S1) ELSE S1
        c2 == IF fire THEN [c1 EXCEPT !.fired = @ + 1] ELSE c1
    IN IF r # "eagain" THEN [S |-> S2, c |-> c2, st |-> r]
       ELSE wait_enter(S1, c1, t)

\* (variant: a send / recv that waits and retries after every error)
send_recv_retry_all(S, c, t, ev) ==
    LET d == c.d
        r == attempt_result(S, d, ev)
        S1 == attempt_effect(S, d, r, ev)
        c1 == [c EXCEPT !.attempts = @ + 1]
        fire == ~S1.in_multipart[d]
        S2 == IF fire THEN state_changed(S1) ELSE S1
        c2 == IF fire THEN [c1 EXCEPT !.fired = @ + 1] ELSE c1
    IN IF c.nb THEN [S |-> S2, c |-> c2, st |-> r]
       ELSE IF r = "ok" THEN [S |-> S2, c |-> c2, st |-> r]
       ELSE wait_enter(S1, c1, t)

\* (variant: a send / recv that never waits: one attempt, whatever the flags)
send_recv_never_waits(S, c, t, ev) ==
    LET d == c.d
        r == attempt_result(S, d, ev)
        S1 == attempt_effect(S, d, r, ev)
        c1 == [c EXCEPT !.attempts = @ + 1]
        fire == ~S1.in_multipart[d]
        S2 == IF fire THEN state_changed(S1) ELSE S1
        c2 == IF fire THEN [c1 EXCEPT !.fired = @ + 1] ELSE c1
    IN [S |-> S2, c |-> c2, st |-> r]

\* One call of send (c.d = "w") or recv (c.d = "r") from the attempt on, up
\* to its end or to the suspension of t: with NOBLOCK one attempt and, in the
\* finally clause, __state_changed unless a multipart call is under way;
\* without it the same on success and on an error that is not EAGAIN, and
\* _wait_write / _wait_read on EAGAIN.  c.attempts counts the attempts since
\* t last ran, c.fired the calls of __state_changed made by this call.
send_recv(S, c, t, ev) ==
    LET d == c.d
        r == attempt_result(S, d, ev)
        S1 == attempt_effect(S, d, r, ev)
        c1 == [c EXCEPT !.attempts = @ + 1]
        fire == ~S1.in_multipart[d]
        S2 == IF fire THEN state_changed(S1) ELSE S1
        c2 == IF fire THEN [c1 EXCEPT !.fired = @ + 1] ELSE c1
    IN IF c.nb THEN [S |-> S2, c |-> c2, st |-> r]
       ELSE IF r # "eagain" THEN [S |-> S2, c |-> c2, st |-> r]
       ELSE wait_enter(S1, c1, t)

\* zmq.Socket.send_multipart / recv_multipart: self.send / self.recv frame
\* after frame (c.left frames are left, this one included); the k-th of the
\* coming attempts meets ev, the others nothing.
RECURSIVE frames(_, _, _, _, _)
frames(S, c, t, k, ev) ==
    The({ IF m.st = "ok" /\ c.left > 1
          THEN frames(m.S, [m.c EXCEPT !.left = @ - 1], t,
                      IF k > 0 THEN k - 1 ELSE 0, ev)
          ELSE m : m \in {send_recv(S, c, t, IF k = 1 THEN ev ELSE "none")} })

\* send_multipart / recv_multipart of _Socket: the flag before the frames ...
multipart_enter(S, c) ==
    IF c.mp THEN [S EXCEPT !.in_multipart[c.d] = TRUE] ELSE S

\* ... and the finally clause after them
multipart_exit(m) ==
    IF m.c.mp /\ m.st # "wait"
    THEN [m EXCEPT !.S = state_changed([m.S EXCEPT !.in_multipart[m.c.d] = FALSE]),
                   !.c.fired = @ + 1]
    ELSE m

\* a resumed task: the end of _wait_*, then the send / recv loop goes on
resume(S, c, t, cause, k, ev) ==
    LET S1 == wait_exit(S, c, t)
        c1 == [c EXCEPT !.wake = cause]
    IN The({ multipart_exit(m) :
             m \in { IF wait_raises(cause)
                     THEN [S |-> S1, c |-> c1,
                           st |-> IF cause = "foreign" THEN "foreign" ELSE "timeout"]
                     ELSE frames(S1, c1, t, k, ev) } })

\* ---- get / set ------------------------------------------------------------------
\* zmq.Socket.get / set under the green one: a closed socket answers ENOTSOCK
option_result(S) == IF S.closed THEN "closed" ELSE "ok"

\* (variant: UNSUBSCRIBE forgotten)
set_fires_subscribe_only(opt) == opt = "SUBSCRIBE"

\* opt in (zmq.SUBSCRIBE, zmq.UNSUBSCRIBE)
set_fires(opt) == opt \in {"SUBSCRIBE", "UNSUBSCRIBE"}

\* opt == zmq.EVENTS
get_fires(opt) == opt = "EVENTS"

get(S, opt) ==
    LET r == option_result(S)
        fire == r = "ok" /\ get_fires(opt)
    IN [S |-> IF fire THEN state_changed(S) ELSE S,
        fired |-> IF fire THEN 1 ELSE 0,
        st |-> r]

set(S, opt) ==
    LET r == option_result(S)
        fire == r = "ok" /\ set_fires(opt)
    IN [S |-> IF fire THEN state_changed(S) ELSE S,
        fired |-> IF fire THEN 1 ELSE 0,
        st |-> r]

\* ---- the state machine ------------------------------------------------------------
NoCall == [d |-> "r", mp |-> FALSE, nb |-> FALSE, left |-> 0,
           fired |-> 0, attempts |-> 0, wake |-> "none"]

IdleTask == [pc |-> "idle", c |-> NoCall]

NoResult == [op |-> "none", opt |-> "none", st |-> "none", c |-> NoCall]

Waiting(t) == task[t].pc = "wait"

\* no task is running: the hub is free to switch to a task or to run a callback
Hub == last = NoResult

WaitingOn(t, d) == Waiting(t) /\ task[t].c.d = d

Init ==
    /\ sock = setup_events
    /\ task = [t \in Tasks |-> IdleTask]
    /\ last = NoResult

\* the call of t goes on to m: suspended again, or ended with status m.st
Commit(t, m) ==
    /\ sock' = m.S
    /\ task' = [task EXCEPT ![t] = IF m.st = "wait"
                                   THEN [pc |-> "wait",
                                         c |-> [m.c EXCEPT !.wake = "none", !.attempts = 0]]
                                   ELSE IdleTask]
    /\ last' = IF m.st = "wait" THEN NoResult
               ELSE [op |-> "call", opt |-> "none", st |-> m.st,
                     c |-> [m.c EXCEPT !.left = 0]]

\* task t calls send/recv (n = 1, mp = FALSE) or send_multipart/recv_multipart
Start(t, d, mp, nb, n, k, ev) ==
    /\ Hub
    /\ task[t].pc = "idle"
    /\ LET c == [NoCall EXCEPT !.d = d, !.mp = mp, !.nb = nb, !.left = n]
       IN \E m \in {frames(multipart_enter(sock, c), c, t, k, ev)} :
              \E m1 \in {multipart_exit(m)} : Commit(t, m1)

\* what the attempts of the next n frames meet: nothing, or the k-th ev
\* ("dry" is told from "none" only when a further attempt follows)
Scripts(n) == {<<0, "none">>} \cup ((1..n) \X {"fatal"}) \cup ((1..(n - 1)) \X {"dry"})

Send(t) ==
    \E nb \in BOOLEAN, x \in Scripts(1) : Start(t, "w", FALSE, nb, 1, x[1], x[2])

Recv(t) ==
    \E nb \in BOOLEAN, x \in Scripts(1) : Start(t, "r", FALSE, nb, 1, x[1], x[2])

\* (the frames of a multipart call are sent / received without NOBLOCK here)
SendMultipart(t) ==
    \E n \in 1..MaxFrames :
        \E x \in Scripts(n) : Start(t, "w", TRUE, FALSE, n, x[1], x[2])

RecvMultipart(t) ==
    \E n \in 1..MaxFrames :
        \E x \in Scripts(n) : Start(t, "r", TRUE, FALSE, n, x[1], x[2])

\* the hub switches back to t: the object t is suspended on was set
Resume(t) ==
    /\ Hub
    /\ Waiting(t)
    /\ sock.set[task[t].c.d][t]
    /\ \E x \in Scripts(task[t].c.left) :
           \E m \in {resume(sock, task[t].c, t, "signal", x[1], x[2])} : Commit(t, m)

\* the Timeout of the wait expires before the object was set
Watchdog(t) ==
    /\ Hub
    /\ Waiting(t)
    /\ watchdog_armed
    /\ ~sock.set[task[t].c.d][t]
    /\ \E x \in Scripts(task[t].c.left) :
           \E m \in {resume(sock, task[t].c, t, "watchdog", x[1], x[2])} : Commit(t, m)

\* a Timeout of the caller (not the one of the wait) is raised into t
Interrupt(t) ==
    /\ Hub
    /\ Waiting(t)
    /\ \E m \in {resume(sock, task[t].c, t, "foreign", 0, "none")} : Commit(t, m)

Get(t) ==
    /\ Hub
    /\ task[t].pc = "idle"
    /\ \E opt \in Opts :
        LET m == get(sock, opt)
        IN /\ sock' = m.S
           /\ last' = [op |-> "get", opt |-> opt, st |-> m.st,
                       c |-> [NoCall EXCEPT !.fired = m.fired]]
    /\ UNCHANGED task

Set(t) ==
    /\ Hub
    /\ task[t].pc = "idle"
    /\ \E opt \in Opts :
        LET m == set(sock, opt)
        IN /\ sock' = m.S
           /\ last' = [op |-> "set", opt |-> opt, st |-> m.st,
                       c |-> [NoCall EXCEPT !.fired = m.fired]]
    /\ UNCHANGED task

\* close() by a running task (every task but the caller may be suspended)
Close ==
    /\ Hub
    /\ \E t \in Tasks : task[t].pc = "idle"
    /\ sock' = close(sock)
    /\ last' = NoResult
    /\ UNCHANGED task

\* the hub runs the callback of the io watcher on the socket's FD
WatchFires ==
    /\ Hub
    /\ sock.state_event
    /\ sock' = readable_detected(sock)
    /\ last' = NoResult
    /\ UNCHANGED task

\* the peer: a frame arrives (d = "r") / room for a frame is made (d = "w"),
\* or what was there is gone
Peer(d) ==
    /\ Hub
    /\ ~sock.closed
    /\ sock' = [sock EXCEPT !.ready[d] = ~@]
    /\ last' = NoResult
    /\ UNCHANGED task

\* the caller of the call that ended goes its way: the hub is free again
Yield ==
    /\ ~Hub
    /\ last' = NoResult
    /\ UNCHANGED <<sock, task>>

Next ==
    \/ \E t \in Tasks : Send(t)
    \/ \E t \in Tasks : Recv(t)
    \/ \E t \in Tasks : SendMultipart(t)
    \/ \E t \in Tasks : RecvMultipart(t)
    \/ \E t \in Tasks : Resume(t)
    \/ \E t \in Tasks : Watchdog(t)
    \/ \E t \in Tasks : Interrupt(t)
    \/ \E t \in Tasks : Get(t)
    \/ \E t \in Tasks : Set(t)
    \/ Close
    \/ WatchFires
    \/ \E d \in Dirs : Peer(d)
    \/ Yield

Spec == Init /\ [][Next]_vars

\* The event loop lets a running task get to the end of its step, and it does
\* not pass over an expired Timeout or a task whose object was set for ever:
\* each is served at one of the times the hub is free.  Nothing else is
\* scheduled fairly (no readiness notification need ever come).
LiveSpec ==
    /\ Init
    /\ [][Next]_vars
    /\ \A t \in Tasks : SF_vars(Watchdog(t)) /\ SF_vars(Resume(t))
    /\ WF_vars(Yield)

TypeOK ==
    /\ sock.closed \in BOOLEAN
    /\ sock.state_event \in BOOLEAN
    /\ sock.stops \in 0..1
    /\ \A d \in Dirs : sock.gate[d] \in Owners /\ sock.ready[d] \in BOOLEAN
    /\ \A t \in Tasks : task[t].pc \in {"idle", "wait"}
    /\ \A t \in Tasks : task[t].c.fired \in 0..(MaxFrames + 1)
    /\ last.c.attempts \in 0..MaxFrames

\* the tasks suspended on the gate of direction d: on an object not set yet
GateWaiters(d) == {t \in Tasks : WaitingOn(t, d) /\ ~sock.set[d][t]}

\* ---- the claims ---------------------------------------------------------------

\* C1: in every reachable state at most one task waits on the readable gate
\* and at most one on the writable gate, and the one that waits does so on
\* the object the socket refers to; a call ends with the assertion error only
\* while that gate is not ready (another task waits on it), and then the
\* caller is not waiting.
C1_SingleWaiter ==
    /\ \A d \in Dirs :
        /\ Cardinality(GateWaiters(d)) <= 1
        /\ \A t \in GateWaiters(d) : sock.gate[d] = t
    /\ last.st = "assert" =>
        /\ ~gate_ready(sock, last.c.d)
        /\ GateWaiters(last.c.d) # {}

C1_Witness ==
    /\ last.st = "assert"
    /\ \E t \in Tasks : t \in GateWaiters(last.c.d)

C3_OncePerCall ==
    (last.op = "call" /\ ~last.c.mp /\ last.st \in {"ok", "eagain", "fatal", "closed"})
        => last.c.fired = 1

\* C4: every send_multipart / recv_multipart call fires __state_changed
\* exactly once: at its end, and not for a frame of it.
C4_OncePerBatch ==
    (last.op = "call" /\ last.c.mp) => last.c.fired = 1

\* C5: a call with the NOBLOCK flag never suspends its caller and ends after
\* exactly one attempt, whatever the attempt gave (EAGAIN included).
C5_NoBlockNeverWaits ==
    /\ \A t \in Tasks : Waiting(t) => ~task[t].c.nb
    /\ (last.op = "call" /\ last.c.nb) =>
        /\ last.c.attempts = 1
        /\ last.c.wake = "none"

C5_Witness ==
    /\ last.op = "call" /\ last.c.nb
    /\ last.st = "eagain"

\* C6: with the watchdog timer (and the hub's switch to a signalled task)
\* scheduled fairly and no readiness notification guaranteed, no task waits
\* forever in a blocking send / recv while the socket stays ready for its
\* direction: again and again, the task is not waiting or the socket is not
\* ready (a task that is not waiting satisfies this at once, so this is:
\* waiting leads to "not waiting, or not ready").
C6_WatchdogUnwedges ==
    \A t \in Tasks : []<>(~Waiting(t) \/ ~sock.ready[task[t].c.d])

\* a call that the watchdog woke, with no signal, and that then succeeded
C6_Witness ==
    /\ last.op = "call" /\ last.st = "ok"
    /\ last.c.wake = "watchdog"

\* C7 as written: a blocking-style call returns, or raises the closed-socket
\* error, or raises the fatal transport error.
C7_ThreeOutcomes ==
    (last.op = "call" /\ ~last.c.nb) => last.st \in {"ok", "closed", "fatal"}

\* C7 as amended: a blocking-style call returns, raises the closed-socket
\* error, raises the fatal transport error, fails the single-waiter
\* assertion, or passes on a Timeout that a caller raised into its wait; the
\* Timeout of the watchdog is never raised to the caller.
C7_Outcomes ==
    (last.op = "call" /\ ~last.c.nb) =>
        last.st \in {"ok", "closed", "fatal", "assert", "foreign"}

C7_Witness ==
    /\ last.op = "call" /\ ~last.c.nb
    /\ last.c.wake = "watchdog"
    /\ last.st = "fatal"

\* C8: whenever the watch callback runs on a socket that is not closed, the
\* gate of every direction that is ready then is signalled by it: the
\* readable gate when the socket is readable, the writable gate when it is
\* writable.
C8_WatchSignalsReady ==
    [][(WatchFires /\ ~sock.closed) =>
        \A d \in Dirs : select(sock)[d] => gate_ready(sock', d)]_vars

\* C9: a send / recv call made after close() ends at once with the
\* closed-socket error, after one attempt, and no task starts to wait on a
\* closed socket.
C9_ClosedFailsFast ==
    [][sock.closed =>
        /\ \A t \in Tasks : Waiting(t)' => Waiting(t)
        /\ (last'.op = "call" /\ last'.c.wake = "none") =>
              (last'.st = "closed" /\ last'.c.attempts = 1)]_vars

C9_Witness ==
    /\ sock.closed /\ sock.stops = 1
    /\ last.op = "call" /\ last.c.wake = "none" /\ ~last.c.nb
    /\ last.st = "closed"

\* C10 as written: set() of SUBSCRIBE / UNSUBSCRIBE and get() of EVENTS fire
\* __state_changed exactly once, get() and set() of another option never.
C10_OptionFires ==
    /\ last.op = "set" =>
        last.c.fired = (IF last.opt \in {"SUBSCRIBE", "UNSUBSCRIBE"} THEN 1 ELSE 0)
    /\ last.op = "get" =>
        last.c.fired = (IF last.opt = "EVENTS" THEN 1 ELSE 0)

\* C10 as amended: so it is for a get() / set() that the socket under it
\* accepts; one that fails there (the socket is closed) fires nothing.
C10_OptionFiresIfAccepted ==
    /\ last.op = "set" =>
        last.c.fired = (IF last.st = "ok" /\ last.opt \in {"SUBSCRIBE", "UNSUBSCRIBE"}
                        THEN 1 ELSE 0)
    /\ last.op = "get" =>
        last.c.fired = (IF last.st = "ok" /\ last.opt = "EVENTS" THEN 1 ELSE 0)

\* UNSUBSCRIBE is set with no send / recv pending, and fires once
C10_Witness ==
    /\ last.op = "set" /\ last.opt = "UNSUBSCRIBE"
    /\ last.c.fired = 1
    /\ \A t \in Tasks : ~Waiting(t)

\* C11: a gate is closed (its object is not set) only while the task that
\* made the object is suspended on it, in that direction; and when a call
\* that went through a wait has ended (woken by a signal, by the watchdog
\* or by a Timeout raised into it), the gate of its direction is open.
C11_ClosedOnlyWhileWaited ==
    /\ \A d \in Dirs :
        ~gate_ready(sock, d) => (sock.gate[d] \in Tasks /\ WaitingOn(sock.gate[d], d))
    /\ (last.op = "call" /\ last.c.wake # "none") => gate_ready(sock, last.c.d)

\* a wait ended by a Timeout raised into it, while the other gate is closed
\* under a waiting task
C11_Witness ==
    /\ last.op = "call" /\ last.c.wake = "foreign" /\ last.st = "foreign"
    /\ \E d \in Dirs : ~gate_ready(sock, d)

\* C12: the watch is stopped exactly once, by the teardown that close()
\* runs: it is registered and never stopped while the socket is open, and
\* stopped once from then on; on a closed socket no step (a later teardown
\* by __state_changed or by close() included) touches the watch, and a
\* repeated close() leaves the socket as it was.
C12_StoppedOnce ==
    /\ [](/\ sock.stops = (IF sock.closed THEN 1 ELSE 0)
          /\ sock.state_event = ~sock.closed)
    /\ [][sock.closed =>
            /\ sock'.stops = sock.stops
            /\ sock'.state_event = sock.state_event
            /\ Close => sock' = sock]_vars

\* a send / recv on the closed socket has run the teardown again
C12_Witness ==
    /\ sock.closed /\ sock.stops = 1 /\ ~sock.state_event
    /\ last.op = "call" /\ last.st = "closed" /\ last.c.fired = 1 /\ last.c.nb

\* C13: a blocking send / recv that the socket under it fails with an error
\* other than EAGAIN ends with that error, and when the call is not a frame
\* of a multipart call it has fired __state_changed exactly once by then.
C13_ErrorFiresOnce ==
    (last.op = "call" /\ ~last.c.nb /\ ~last.c.mp /\ last.st \in {"fatal", "closed"})
        => last.c.fired = 1

\* C14 (original statement): in a blocking-style call EAGAIN never reaches
\* the caller, every EAGAIN is followed by a wait (so the call never ends
\* for want of one) and every wait by a new attempt.
C14_WouldBlockWaits ==
    (last.op = "call" /\ ~last.c.nb) =>
        /\ last.st \notin {"eagain", "assert"}
        /\ last.c.wake # "none" => last.c.attempts >= 1

\* C14 (amended): in a blocking-style call EAGAIN never reaches the caller;
\* it is followed by a wait under the watchdog, unless another task waits on
\* that gate already (then by the assertion error), and the wait by a new
\* attempt, unless a Timeout of the caller ended the wait (then by none); a
\* send replaces and waits on the writable gate only, a recv on the readable
\* gate only.
C14_WouldBlockWaitsUnlessConflict ==
    /\ [](/\ (last.op = "call" /\ ~last.c.nb) =>
              /\ last.st # "eagain"
              /\ last.st = "assert" => GateWaiters(last.c.d) # {}
              /\ last.c.wake \in {"signal", "watchdog"} => last.c.attempts >= 1
              /\ last.c.wake = "foreign" => (last.c.attempts = 0 /\ last.st = "foreign")
          /\ \A t \in Tasks : Waiting(t) => (~task[t].c.nb /\ watchdog_armed))
    /\ [][\A t \in Tasks :
            /\ (Send(t) \/ SendMultipart(t)) =>
                  /\ sock'.gate["r"] = sock.gate["r"]
                  /\ Waiting(t)' => (sock'.gate["w"] = t /\ task'[t].c.d = "w")
            /\ (Recv(t) \/ RecvMultipart(t)) =>
                  /\ sock'.gate["w"] = sock.gate["w"]
                  /\ Waiting(t)' => (sock'.gate["r"] = t /\ task'[t].c.d = "r")]_vars

\* a send that met EAGAIN, waited, was signalled and sent at the new attempt
C14_Witness ==
    /\ last.op = "call" /\ ~last.c.nb /\ ~last.c.mp /\ last.c.d = "w"
    /\ last.c.wake = "signal" /\ last.c.attempts = 1 /\ last.st = "ok"

\* C15 (original statement, the part that fails): a gate that was signalled
\* while no task waited on it is ready, so that the next wait on that
\* direction returns immediately: the task that starts it is not suspended.
C15_SignalKeptForNextWait ==
    [][\A t \in Tasks : \A d \in Dirs :
        (gate_ready(sock, d) /\ GateWaiters(d) = {} /\ ~Waiting(t))
            => ~WaitingOn(t, d)']_vars

\* C15 (amended): signalling a gate leaves it ready, changes nothing when it
\* is ready already, and makes the task that waits on it runnable; a
\* runnable task stays so until it runs (the signal is not lost); a wait
\* that starts always does so on a new, closed gate, on which the task is
\* suspended, whatever was signalled before.
C15_SignalWakesWaiter ==
    /\ [](\A d \in Dirs :
            /\ gate_ready(gate_set(sock, d), d)
            /\ gate_ready(sock, d) => gate_set(sock, d) = sock
            /\ \A t \in GateWaiters(d) : gate_set(sock, d).set[d][t])
    /\ [][\A t \in Tasks :
            /\ (Waiting(t) /\ sock.set[task[t].c.d][t]) =>
                  (sock'.set[task[t].c.d][t] \/ Resume(t) \/ Interrupt(t))
            /\ (~Waiting(t) /\ Waiting(t)') =>
                  /\ gate_ready(sock, task'[t].c.d)
                  /\ sock'.gate[task'[t].c.d] = t
                  /\ ~gate_ready(sock', task'[t].c.d)]_vars

\* the watch has signalled the readable gate under a task waiting in recv:
\* the task is runnable and has not run yet
C15_Witness ==
    /\ ~sock.closed
    /\ \E t \in Tasks : /\ WaitingOn(t, "r") /\ sock.gate["r"] = t
                         /\ sock.set["r"][t]

\* C16: the in-multipart flag of a direction is TRUE exactly while some task
\* is inside a multipart call of that direction (between two steps: is
\* suspended in one), whatever the other tasks do on the socket meanwhile.
C16_FlagTracksBatch ==
    \A d \in Dirs :
        sock.in_multipart[d] <=> (\E t \in Tasks : WaitingOn(t, d) /\ task[t].c.mp)

\* C17: a call that ends with the single-waiter assertion leaves the gate of
\* its direction as it was: the same object, not set, and the task that
\* waits on it still suspended on it, in the same call, not runnable.
C17_ConflictLeavesGate ==
    [][\A d \in Dirs :
        (last'.st = "assert" /\ last'.c.d = d) =>
            /\ GateWaiters(d) # {}
            /\ sock'.gate[d] = sock.gate[d]
            /\ sock'.set[d] = sock.set[d]
            /\ \A t \in GateWaiters(d) :
                  task'[t] = task[t] /\ t \in GateWaiters(d)']_vars

\* a recv_multipart that failed the assertion, the first waiter still there
C17_Witness ==
    /\ last.st = "assert" /\ last.c.mp /\ last.c.d = "r"
    /\ sock.gate["r"] \in GateWaiters("r")

====
